---- MODULE Spec2Model ----
(***************************************************************************)
(* The retrieval subsystem of chat.ai: the embedding store on the shared   *)
(* SQLite connection (saveEmbeddings / getAllEmbeddings), the Ollama       *)
(* client (ping, generateEmbedding, rerank, evaluateRelevance) and the     *)
(* two-phase query pipeline of RagService.query.                           *)
(*                                                                         *)
(* Numbers: relevance scores and thresholds are fixed-point hundredths     *)
(* (0.5 is 50).  A cosine similarity is kept exactly as the pair           *)
(* num / sqrt(den2), so comparisons are exact over integer vectors.        *)
(***************************************************************************)
EXTENDS Integers, Sequences, FiniteSets, TLC

(***************************************************************************)
(* Bounds of the model.                                                    *)
(***************************************************************************)
\* documents ingested before the query of Spec runs
MaxIngested == 2
\* saveEmbeddings calls each caller makes in SpecSave / SpecConc
MaxCalls == 2

(***************************************************************************)
(* Program constants.                                                      *)
(***************************************************************************)
\* rag.service.ts:48  topN = 3
DefaultTopN == 3
\* rag.service.ts:48  threshold = 0.5
DefaultThreshold == 50
\* rag.service.ts:48  initialTopK = 20
DefaultInitialTopK == 20

\* SQL NULL / undefined; a present value v is <<v>>
NULL == <<>>
NoResult == [kind |-> "none"]

(***************************************************************************)
(* State.                                                                  *)
(***************************************************************************)
\* the shared SQLite connection and table pdf_embeddings
VARIABLES
  dbRows,      \* rows of pdf_embeddings visible on the connection
  dbInTxn,     \* a transaction is open on the connection
  dbTxnIds,    \* ids inserted since BEGIN, undone by ROLLBACK
  nextId       \* AUTOINCREMENT

dbVars == <<dbRows, dbInTxn, dbTxnIds, nextId>>

\* one call of RagService.query
VARIABLES
  qpc,             \* "idle", "ping", "embed", "read", "rerank", "done"
  qopts,           \* topN, threshold, initialTopK of the call
  queryEmbedding,
  allEmbeddings,
  candidates,
  rerankAcc,       \* results of rerank while its loop runs
  rerankResults,   \* what rerank returned
  qoutcome,        \* "none", "ok", or the error the call failed with
  qresult,         \* the RagQueryResult returned, NoResult before
  calls,           \* calls made so far: ping, embed, read, rerank, evaluate
  pingReply,       \* what the liveness endpoint answered
  embedReply,      \* what the embedding endpoint answered for the query text
  evalLog,         \* per document, what its own evaluation produced
  inflight         \* documents whose evaluateRelevance call has not yet settled

queryVars == <<qpc, qopts, queryEmbedding, allEmbeddings, candidates, rerankAcc,
               rerankResults, qoutcome, qresult, calls, pingReply, embedReply,
               evalLog, inflight>>

\* the callers of EmbeddingRepository.saveEmbeddings
VARIABLES
  spc,       \* per caller: "idle", "begin", "insert", "commit", "rollback",
             \*             "returned", "threw"
  sbatch,    \* the embeddings passed to the call
  snext,     \* index of the next record to insert
  scalls,    \* calls the caller has made
  sids,      \* ids of the rows the call's INSERTs wrote
  sfailed    \* a BEGIN, INSERT or COMMIT of the call failed

saveVars == <<spc, sbatch, snext, scalls, sids, sfailed>>

\* one call of ChunkingService.chunkText
VARIABLES
  cpc,                \* "idle", "loop", "done"
  ctext,              \* the text passed, as the pieces the sentence split yields
  copts,              \* maxTokens, overlap
  sentences,          \* splitIntoSentences(text)
  ci,                 \* the loop index i (1-based)
  currentChunk,       \* sentences of the chunk being filled
  currentTokenCount,
  chunkIndex,
  chunks,             \* the TextChunks emitted so far
  copied              \* per chunk started, how many overlap sentences it began with

chunkVars == <<cpc, ctext, copts, sentences, ci, currentChunk, currentTokenCount,
               chunkIndex, chunks, copied>>

\* one ingestion run at a time: handleProcessPDFs or the process_pdfs tool
VARIABLES
  rpc,              \* "idle", "file", "saving", "done"
  rvia,             \* the path of the run, "controller" or "mcp"
  rfiles,           \* supportedFiles / pdfFiles, in processing order
  ri,               \* index of the file being processed
  rresults,         \* results: one status entry per file processed
  totalEmbeddings,
  routcome,         \* "none", "responded", "unavailable", "aborted"
  rlog,             \* per file processed, what happened to it
  rgen,             \* the last generateEmbeddings call: its replies and result
  processed         \* files processed by all runs so far

runVars == <<rpc, rvia, rfiles, ri, rresults, totalEmbeddings, routcome, rlog,
             rgen, processed>>

\* one evaluateRelevance call taken alone
VARIABLES
  preply,           \* what /api/generate answered
  pscore            \* what evaluateRelevance made of it, NoResult before the call

parseVars == <<preply, pscore>>

\* what an action of one component leaves alone
outsideQuery == <<saveVars, chunkVars, runVars, parseVars>>
outsideSave == <<queryVars, chunkVars, runVars, parseVars>>
outsideChunk == <<dbVars, queryVars, saveVars, runVars, parseVars>>
outsideRun == <<queryVars, chunkVars, parseVars>>
outsideParse == <<dbVars, queryVars, saveVars, chunkVars, runVars>>

vars == <<dbVars, queryVars, saveVars, chunkVars, runVars, parseVars>>

(***************************************************************************)
(* Sequence helpers.                                                       *)
(***************************************************************************)
Min(a, b) == IF a <= b THEN a ELSE b
Max(a, b) == IF a >= b THEN a ELSE b

\* Array.prototype.slice(0, end): a negative end counts from the back.
SliceTo(s, end) ==
  LET n == Len(s)
      k == IF end < 0 THEN Max(n + end, 0) ELSE Min(end, n)
  IN  SubSeq(s, 1, k)

RECURSIVE FilterSeq(_, _)
\* Array.prototype.filter, Keep a set of the values kept
FilterSeq(s, Keep) ==
  IF s = <<>> THEN <<>>
  ELSE IF Head(s) \in Keep THEN <<Head(s)>> \o FilterSeq(Tail(s), Keep)
       ELSE FilterSeq(Tail(s), Keep)

Range(s) == {s[i] : i \in 1..Len(s)}

(***************************************************************************)
(* vector.utils: cosineSimilarity.                                         *)
(***************************************************************************)
RECURSIVE Dot(_, _)
Dot(a, b) == IF a = <<>> THEN 0 ELSE Head(a) * Head(b) + Dot(Tail(a), Tail(b))

\* mutant: only a first vector longer than the second is refused
DimensionMismatch_LongerOnly(vecA, vecB) == Len(vecA) > Len(vecB)

\* throws 'Vectors must have the same length'
DimensionMismatch(vecA, vecB) == Len(vecA) # Len(vecB)

\* dot / (sqrt(normA) * sqrt(normB)), 0 when the denominator is 0;
\* the value is num / sqrt(den2)
cosineSimilarity(vecA, vecB) ==
  LET dotProduct == Dot(vecA, vecB)
      normA == Dot(vecA, vecA)
      normB == Dot(vecB, vecB)
  IN  IF normA * normB = 0 THEN [num |-> 0, den2 |-> 1]
      ELSE [num |-> dotProduct, den2 |-> normA * normB]

SignedSquare(n) == IF n >= 0 THEN n * n ELSE -(n * n)

\* x < y for two similarities
SimLess(x, y) == SignedSquare(x.num) * y.den2 < SignedSquare(y.num) * x.den2

(***************************************************************************)
(* ollama.service: replies of the backing service.  A reply is a timeout   *)
(* (AbortError), a non-2xx status, a body without the expected field, or a *)
(* well-formed body.  A response text is a sequence of characters.         *)
(***************************************************************************)
Timeout == [kind |-> "timeout"]
HttpError == [kind |-> "http_error"]
Malformed == [kind |-> "malformed"]
Failures == {Timeout, HttpError, Malformed}

\* /api/generate replies used for the relevance evaluation
GenerateReplies ==
  Failures \cup
  { [kind |-> "ok", response |-> <<"0", ".", "9">>],
    [kind |-> "ok", response |-> <<" ", ".", "3">>],
    [kind |-> "ok", response |-> <<"n", "o">>] }

\* /api/embeddings replies for the query text
EmbeddingReplies ==
  Failures \cup
  { [kind |-> "ok", embedding |-> <<1, 0>>],
    [kind |-> "ok", embedding |-> <<1, 2>>],
    [kind |-> "ok", embedding |-> <<1>>] }

\* /api/version: response.ok, or a network failure
PingReplies == {"ok", "not_ok", "network_failure"}

Digits == {"0", "1", "2", "3", "4", "5", "6", "7", "8", "9"}
DigitVal(c) ==
  CASE c = "0" -> 0 [] c = "1" -> 1 [] c = "2" -> 2 [] c = "3" -> 3
    [] c = "4" -> 4 [] c = "5" -> 5 [] c = "6" -> 6 [] c = "7" -> 7
    [] c = "8" -> 8 [] c = "9" -> 9

\* the last index of the run of digits that starts at p
DigitRunEnd(s, p) ==
  CHOOSE q \in p..Len(s) :
    /\ \A k \in p..q : s[k] \in Digits
    /\ (q = Len(s) \/ s[q + 1] \notin Digits)

\* responseText.match(/(\d*\.?\d+)/): the leftmost match, greedy; <<>> for null
ScoreMatch(s) ==
  LET starts == { p \in 1..Len(s) :
                    \/ s[p] \in Digits
                    \/ (s[p] = "." /\ p < Len(s) /\ s[p + 1] \in Digits) }
  IN  IF starts = {} THEN <<>>
      ELSE LET p == CHOOSE x \in starts : \A y \in starts : x <= y
               last ==
                 IF s[p] = "." THEN DigitRunEnd(s, p + 1)
                 ELSE LET q == DigitRunEnd(s, p)
                      IN  IF q + 2 <= Len(s) /\ s[q + 1] = "." /\ s[q + 2] \in Digits
                          THEN DigitRunEnd(s, q + 2)
                          ELSE q
           IN  SubSeq(s, p, last)

RECURSIVE Trim(_)
\* String.prototype.trim
Trim(s) ==
  IF s = <<>> THEN s
  ELSE IF Head(s) = " " THEN Trim(Tail(s))
  ELSE IF s[Len(s)] = " " THEN Trim(SubSeq(s, 1, Len(s) - 1))
  ELSE s

RECURSIVE DigitsValue(_)
\* the integer a run of digits denotes
DigitsValue(ds) ==
  IF ds = <<>> THEN 0
  ELSE DigitsValue(SubSeq(ds, 1, Len(ds) - 1)) * 10 + DigitVal(ds[Len(ds)])

\* parseFloat of a match, in hundredths (exact for at most two decimals)
ParseFloat(m) ==
  LET dots == { p \in 1..Len(m) : m[p] = "." }
      dot == IF dots = {} THEN Len(m) + 1 ELSE CHOOSE p \in dots : TRUE
      intPart == SubSeq(m, 1, dot - 1)
      frac == SubSeq(m, dot + 1, Len(m))
      frac2 == SubSeq(frac \o <<"0", "0">>, 1, 2)
  IN  DigitsValue(intPart) * 100 + DigitsValue(frac2)

\* mutant: a reply without a number scores 0
evaluateRelevance_DefaultZero(reply) ==
  IF reply.kind # "ok"
  THEN [threw |-> TRUE,
        error |-> IF reply = Timeout THEN "TimeoutError" ELSE "ServiceError"]
  ELSE LET scoreMatch == ScoreMatch(Trim(reply.response))
       IN  IF scoreMatch = <<>> THEN [threw |-> FALSE, score |-> 0]
           ELSE [threw |-> FALSE,
                 score |-> Max(0, Min(100, ParseFloat(scoreMatch)))]

\* evaluateRelevance: the score of one reply, or a throw
evaluateRelevance(reply) ==
  IF reply.kind # "ok"
  THEN [threw |-> TRUE,
        error |-> IF reply = Timeout THEN "TimeoutError" ELSE "ServiceError"]
  ELSE LET scoreMatch == ScoreMatch(Trim(reply.response))
       IN  IF scoreMatch = <<>> THEN [threw |-> FALSE, score |-> 50]
           ELSE [threw |-> FALSE,
                 score |-> Max(0, Min(100, ParseFloat(scoreMatch)))]

\* the largest finite float32, at the scale of the model
F32Max == 99

\* The values of a vector are kept as integers: a finite number is itself,
\* and three integers outside the finite range stand for Infinity,
\* -Infinity and null.
Infinity == F32Max + 1
NegInfinity == -Infinity
JsonNull == F32Max + 2

\* the float32 a number is stored as: out of range becomes +-Infinity
ToFloat32(x) ==
  IF x > F32Max THEN Infinity ELSE IF x < -F32Max THEN NegInfinity ELSE x

\* new Float32Array(data.embedding)
Float32Array(data) == [i \in DOMAIN data |-> ToFloat32(data[i])]

\* mutant: a failed embedding call degrades to a zero vector
generateEmbedding_ZeroVector(reply) ==
  IF reply.kind # "ok" THEN [threw |-> FALSE, embedding |-> <<0, 0>>]
  ELSE [threw |-> FALSE, embedding |-> reply.embedding]

\* generateEmbedding: the vector of one reply, or a throw
generateEmbedding(reply) ==
  IF reply.kind # "ok"
  THEN [threw |-> TRUE,
        error |-> IF reply = Timeout THEN "TimeoutError" ELSE "ServiceError"]
  ELSE [threw |-> FALSE, embedding |-> Float32Array(reply.embedding)]

\* mutant: any HTTP response counts as available
ping_AnyResponse(reply) == reply # "network_failure"

\* ping: response.ok, false on any failure
ping(reply) == reply = "ok"

\* rerank, catch branch: the score given to a document whose evaluation threw
ScoreOnError == 0

\* mutant: the catch block rethrows
RerankCatch_Rethrows(results, i, error) == [threw |-> TRUE, error |-> error]

\* rerank, catch block for document i: logs, pushes a low score, goes on
RerankCatch(results, i, error) ==
  [threw |-> FALSE,
   results |-> Append(results, [index |-> i, relevanceScore |-> ScoreOnError])]

\* mutant: every pushed entry carries index 0
RerankPush_SameIndex(results, i, evaluation) ==
  [threw |-> FALSE,
   results |-> Append(results, [index |-> 0,
                                relevanceScore |-> IF evaluation.threw THEN ScoreOnError
                                                   ELSE evaluation.score])]

\* rerank, one loop iteration for document i (0-based)
RerankPush(results, i, evaluation) ==
  IF evaluation.threw
  THEN RerankCatch(results, i, evaluation.error)
  ELSE [threw |-> FALSE,
        results |-> Append(results, [index |-> i, relevanceScore |-> evaluation.score])]

\* mutant: the comparator is a.relevanceScore - b.relevanceScore
InsertByRelevance_Ascending(acc, x) ==
  LET larger == { p \in 1..Len(acc) : acc[p].relevanceScore > x.relevanceScore }
      at == IF larger = {} THEN Len(acc) + 1
            ELSE CHOOSE p \in larger : \A r \in larger : p <= r
  IN  SubSeq(acc, 1, at - 1) \o <<x>> \o SubSeq(acc, at, Len(acc))

\* insert x before the first entry with a smaller relevanceScore
InsertByRelevance(acc, x) ==
  LET smaller == { p \in 1..Len(acc) : acc[p].relevanceScore < x.relevanceScore }
      at == IF smaller = {} THEN Len(acc) + 1
            ELSE CHOOSE p \in smaller : \A r \in smaller : p <= r
  IN  SubSeq(acc, 1, at - 1) \o <<x>> \o SubSeq(acc, at, Len(acc))

RECURSIVE SortFrom(_, _)
SortFrom(acc, rest) ==
  IF rest = <<>> THEN acc
  ELSE SortFrom(InsertByRelevance(acc, Head(rest)), Tail(rest))

\* mutant: rerank returns the entries in document order
RerankSort_Unsorted(results) == results

\* results.sort((a, b) => b.relevanceScore - a.relevanceScore), stable
RerankSort(results) == SortFrom(<<>>, results)

(***************************************************************************)
(* The store: table pdf_embeddings behind the one shared SQLite            *)
(* connection.  dbRows are the rows the connection sees, in rowid order;   *)
(* dbTxnIds are the ids written inside the open transaction.               *)
(***************************************************************************)

EmbeddingModel == "nomic-embed-text"

\* The documents of the model: per file, the chunks chunkText yields for its
\* text and, per chunk, the data.embedding the embedding endpoint answers.
\* fd is embedded with another dimension, fe has a component beyond the
\* float32 range, ff has no text.
Corpus ==
  [ fa |-> << [text |-> "a0", embedding |-> <<1, 0>>, token_count |-> 2],
              [text |-> "a1", embedding |-> <<1, 1>>, token_count |-> 3] >>,
    fb |-> << [text |-> "b0", embedding |-> <<2, 0>>, token_count |-> 2] >>,
    fc |-> << [text |-> "c0", embedding |-> <<0, 1>>, token_count |-> 1] >>,
    fd |-> << [text |-> "d0", embedding |-> <<3>>, token_count |-> 1] >>,
    fe |-> << [text |-> "e0", embedding |-> <<-12, 100>>, token_count |-> 1] >>,
    ff |-> << >> ]

Files == DOMAIN Corpus

\* the two ingestion paths: POST /process (pdf.controller.ts) and the
\* process_pdfs tool (pdf-mcp-server.ts)
Paths == {"controller", "mcp"}

\* the path each file of a pre-filled store was ingested by
IngestedVia == [f \in Files |-> IF f = "fc" THEN "mcp" ELSE "controller"]

\* mutant: the dimension is that of the embedding model's usual output
Dimension_OfModel(embedding) == 2

\* dimension: embedding.length
Dimension(embedding) == Len(embedding)

\* embeddingsToSave: one record per embedding; the tool's records carry no
\* chunk_text (undefined, kept as "")
EmbeddingsToSaveVia(via, filename, fileChunks, embeddings) ==
  [ index \in 1..Len(embeddings) |->
      [ filename |-> filename,
        chunk_index |-> index - 1,
        chunk_text |-> IF via = "controller" THEN fileChunks[index].text ELSE "",
        embedding |-> embeddings[index],
        embedding_model |-> EmbeddingModel,
        dimension |-> Dimension(embeddings[index]),
        token_count |-> fileChunks[index].token_count ] ]

RECURSIVE generateEmbeddings_Partial(_)
\* mutant: a text whose call fails is skipped and the loop goes on
generateEmbeddings_Partial(replies) ==
  IF replies = <<>> THEN [threw |-> FALSE, embeddings |-> <<>>, requested |-> 0]
  ELSE LET first == generateEmbedding(Head(replies))
           rest == generateEmbeddings_Partial(Tail(replies))
       IN  [threw |-> FALSE,
            embeddings |-> (IF first.threw THEN <<>> ELSE <<first.embedding>>)
                           \o rest.embeddings,
            requested |-> 1 + rest.requested]

RECURSIVE generateEmbeddings(_)
\* generateEmbeddings: one generateEmbedding call per text, in order; the
\* first failure is rethrown.  requested counts the calls that were made.
generateEmbeddings(replies) ==
  IF replies = <<>> THEN [threw |-> FALSE, embeddings |-> <<>>, requested |-> 0]
  ELSE LET first == generateEmbedding(Head(replies))
       IN  IF first.threw
           THEN [threw |-> TRUE, error |-> first.error, requested |-> 1]
           ELSE LET rest == generateEmbeddings(Tail(replies))
                IN  IF rest.threw
                    THEN [rest EXCEPT !.requested = @ + 1]
                    ELSE [threw |-> FALSE,
                          embeddings |-> <<first.embedding>> \o rest.embeddings,
                          requested |-> 1 + rest.requested]

\* what the embedding endpoint answers for chunk index of file f
ChunkReply(f, index) == [kind |-> "ok", embedding |-> Corpus[f][index].embedding]

\* generateEmbeddings(chunkTexts) when every call succeeds
EmbeddingsOf(f) ==
  generateEmbeddings([index \in 1..Len(Corpus[f]) |-> ChunkReply(f, index)]).embeddings

\* embeddingsToSave of file f
EmbeddingsToSave(f) == EmbeddingsToSaveVia(IngestedVia[f], f, Corpus[f], EmbeddingsOf(f))

\* chunk_text || null
TextOrNull(v) == IF v = "" THEN NULL ELSE <<v>>
\* token_count || null
CountOrNull(v) == IF v = 0 THEN NULL ELSE <<v>>
\* chunk_text || ''
OrEmpty(v) == IF v = NULL \/ v = <<"">> THEN "" ELSE v[1]
\* token_count || 0
OrZero(v) == IF v = NULL THEN 0 ELSE v[1]

DigitChar(d) == CHOOSE c \in Digits : DigitVal(c) = d

RECURSIVE DigitsOf(_)
\* the decimal digits of n >= 0
DigitsOf(n) ==
  IF n < 10 THEN <<DigitChar(n)>> ELSE Append(DigitsOf(n \div 10), DigitChar(n % 10))

\* JSON.stringify of one array element: a non-finite number and null are
\* written as null
NumberToJSON(x) ==
  IF x \in {Infinity, NegInfinity, JsonNull} THEN <<"n", "u", "l", "l">>
  ELSE IF x < 0 THEN <<"-">> \o DigitsOf(-x)
  ELSE DigitsOf(x)

RECURSIVE JoinElements(_)
JoinElements(v) ==
  IF v = <<>> THEN <<>>
  ELSE IF Len(v) = 1 THEN NumberToJSON(v[1])
  ELSE NumberToJSON(Head(v)) \o <<",">> \o JoinElements(Tail(v))

\* JSON.stringify(embedding.embedding): the text of the array
JSONStringify(v) == <<"[">> \o JoinElements(v) \o <<"]">>

\* JSON.parse of one array element
ParseValue(tok) ==
  IF tok = <<"n", "u", "l", "l">> THEN JsonNull
  ELSE IF Head(tok) = "-" THEN -DigitsValue(Tail(tok))
  ELSE DigitsValue(tok)

RECURSIVE ParseElements(_)
ParseElements(t) ==
  IF t = <<>> THEN <<>>
  ELSE LET commas == { p \in 1..Len(t) : t[p] = "," }
           end == IF commas = {} THEN Len(t) + 1
                  ELSE CHOOSE p \in commas : \A q \in commas : p <= q
       IN  <<ParseValue(SubSeq(t, 1, end - 1))>>
             \o ParseElements(SubSeq(t, end + 1, Len(t)))

\* JSON.parse(embedding) of the text of an array
JSONParse(text) == ParseElements(SubSeq(text, 2, Len(text) - 1))

\* parseEmbedding: the TEXT column is parsed
parseEmbedding(embedding) == JSONParse(embedding)

\* the row one INSERT statement writes
InsertedRow(id, e) ==
  [ id |-> id,
    filename |-> e.filename,
    chunk_index |-> e.chunk_index,
    chunk_text |-> TextOrNull(e.chunk_text),
    embedding |-> JSONStringify(e.embedding),
    embedding_model |-> e.embedding_model,
    dimension |-> e.dimension,
    token_count |-> CountOrNull(e.token_count) ]

\* ORDER BY filename, chunk_index ASC
RowBefore(r1, r2) ==
  LET rank == [fa |-> 1, fb |-> 2, fc |-> 3, fd |-> 4, fe |-> 5, ff |-> 6]
  IN  \/ rank[r1.filename] < rank[r2.filename]
      \/ (r1.filename = r2.filename /\ r1.chunk_index < r2.chunk_index)

InsertRowOrdered(acc, x) ==
  LET later == { p \in 1..Len(acc) : RowBefore(x, acc[p]) }
      at == IF later = {} THEN Len(acc) + 1
            ELSE CHOOSE p \in later : \A r \in later : p <= r
  IN  SubSeq(acc, 1, at - 1) \o <<x>> \o SubSeq(acc, at, Len(acc))

\* mutant: the rows come back in insertion order, without the ORDER BY
OrderRows_Rowid(acc, rest) == acc \o rest

RECURSIVE OrderRows(_, _)
OrderRows(acc, rest) ==
  IF rest = <<>> THEN acc
  ELSE OrderRows(InsertRowOrdered(acc, Head(rest)), Tail(rest))

\* results.map(row => ({ ...row, embedding: parseEmbedding(row.embedding) }))
ParsedRows(results) ==
  [i \in DOMAIN results |-> [results[i] EXCEPT !.embedding = parseEmbedding(@)]]

\* getAllEmbeddings: SELECT * ... ORDER BY filename, chunk_index ASC
getAllEmbeddings(rows) == ParsedRows(OrderRows(<<>>, rows))

\* getEmbeddingsByFilename: SELECT * ... WHERE filename = ? ORDER BY chunk_index ASC
getEmbeddingsByFilename(rows, filename) ==
  ParsedRows(OrderRows(<<>>, FilterSeq(rows, { r \in Range(rows) : r.filename = filename })))

(***************************************************************************)
(* One evaluateRelevance call (part_022:156-231) on a reply text drawn     *)
(* from all short texts over a small alphabet.                             *)
(***************************************************************************)
\* longest reply text of SpecParse
MaxReplyLen == 4

ReplyChars == {"0", "1", "5", ".", "-", " ", "x"}

\* data.response of a well-formed reply
ReplyTexts == UNION { [1..n -> ReplyChars] : n \in 0..MaxReplyLen }

ParseReplies == Failures \cup { [kind |-> "ok", response |-> t] : t \in ReplyTexts }

ParseInit ==
  /\ preply = Malformed
  /\ pscore = NoResult

\* the call: fetch has answered preply
ParseReply ==
  /\ pscore = NoResult
  /\ pscore' = evaluateRelevance(preply)
  /\ UNCHANGED preply
  /\ UNCHANGED outsideParse

(***************************************************************************)
(* RagService.query.  One call, suspended at each await: ping, the query   *)
(* embedding, the store read, every relevance evaluation of rerank, and    *)
(* the return of rerank.                                                   *)
(***************************************************************************)

TopNs == {-1, 1, DefaultTopN}
Thresholds == {0, DefaultThreshold}
InitialTopKs == {-1, 2, DefaultInitialTopK}

NoCalls == [ping |-> 0, embed |-> 0, read |-> 0, rerank |-> 0, evaluate |-> 0]

\* { ...emb, similarity: cosineSimilarity(queryEmbedding, emb.embedding) }
WithSimilarity(qe, emb) ==
  ("similarity" :> cosineSimilarity(qe, emb.embedding)) @@ emb

\* insert x before the first entry with a smaller similarity
InsertBySimilarity(acc, x) ==
  LET smaller == { p \in 1..Len(acc) : SimLess(acc[p].similarity, x.similarity) }
      at == IF smaller = {} THEN Len(acc) + 1
            ELSE CHOOSE p \in smaller : \A r \in smaller : p <= r
  IN  SubSeq(acc, 1, at - 1) \o <<x>> \o SubSeq(acc, at, Len(acc))

RECURSIVE SortSimilarityFrom(_, _)
SortSimilarityFrom(acc, rest) ==
  IF rest = <<>> THEN acc
  ELSE SortSimilarityFrom(InsertBySimilarity(acc, Head(rest)), Tail(rest))

\* allEmbeddings.map(...).sort((a, b) => b.similarity - a.similarity), stable
Similarities(qe, all) ==
  SortSimilarityFrom(<<>>, [i \in 1..Len(all) |-> WithSimilarity(qe, all[i])])

\* similarities.slice(0, Math.min(initialTopK, similarities.length))
Candidates(similarities, initialTopK) ==
  SliceTo(similarities, Min(initialTopK, Len(similarities)))

\* candidates.map((c) => c.chunk_text || '')
Documents(cands) == [i \in 1..Len(cands) |-> OrEmpty(cands[i].chunk_text)]

\* mutant: the k-th rerank result is paired with the k-th candidate
RankedCandidates_ByPosition(cands, rr) ==
  [k \in 1..Len(rr) |-> ("relevanceScore" :> rr[k].relevanceScore) @@ cands[k]]

\* rerankResults.map((result) => ({...candidates[result.index], relevanceScore}))
RankedCandidates(cands, rr) ==
  [k \in 1..Len(rr) |->
     ("relevanceScore" :> rr[k].relevanceScore) @@ cands[rr[k].index + 1]]

\* mutant: the threshold filter is left out
ThresholdFilter_KeepsAll(ranked, threshold) == ranked

\* .filter((chunk) => chunk.relevanceScore >= threshold)
ThresholdFilter(ranked, threshold) ==
  FilterSeq(ranked, { c \in Range(ranked) : c.relevanceScore >= threshold })

\* .slice(0, topN)
TopSlice(filtered, topN) == SliceTo(filtered, topN)

\* .map((chunk) => ({text, filename, chunkIndex, similarity, relevanceScore, tokenCount}))
ChunkResult(chunk) ==
  [ text |-> OrEmpty(chunk.chunk_text),
    filename |-> chunk.filename,
    chunkIndex |-> chunk.chunk_index,
    similarity |-> chunk.similarity,
    relevanceScore |-> chunk.relevanceScore,
    tokenCount |-> OrZero(chunk.token_count) ]

Results(ranked, threshold, topN) ==
  LET kept == TopSlice(ThresholdFilter(ranked, threshold), topN)
  IN  [k \in 1..Len(kept) |-> ChunkResult(kept[k])]

\* mutant: totalChunks counts the candidates, not the stored records
QueryResult_CountsCandidates(all, cands, results, threshold) ==
  [ kind |-> "result",
    results |-> results,
    metadata |-> [ totalChunks |-> Len(cands),
                   candidatesEvaluated |-> Len(cands),
                   resultsReturned |-> Len(results),
                   threshold |-> threshold ] ]

\* the object query returns
QueryResult(all, cands, results, threshold) ==
  [ kind |-> "result",
    results |-> results,
    metadata |-> [ totalChunks |-> Len(all),
                   candidatesEvaluated |-> Len(cands),
                   resultsReturned |-> Len(results),
                   threshold |-> threshold ] ]

\* mutant: the empty check is left out
IsEmptyIndex_Never(all) == FALSE

\* allEmbeddings.length === 0
IsEmptyIndex(all) == Len(all) = 0

QueryInit ==
  /\ qpc = "idle"
  /\ qopts = [topN |-> DefaultTopN, threshold |-> DefaultThreshold,
              initialTopK |-> DefaultInitialTopK]
  /\ queryEmbedding = <<>>
  /\ allEmbeddings = <<>>
  /\ candidates = <<>>
  /\ rerankAcc = <<>>
  /\ rerankResults = <<>>
  /\ qoutcome = "none"
  /\ qresult = NoResult
  /\ calls = NoCalls
  /\ pingReply = "none"
  /\ embedReply = "none"
  /\ evalLog = <<>>
  /\ inflight = {}

QueryFail(error) ==
  /\ qpc' = "done"
  /\ qoutcome' = error

\* query(query, {topN, threshold, initialTopK}) is called
QueryStart(topN, threshold, initialTopK) ==
  /\ qpc = "idle"
  /\ qpc' = "ping"
  /\ qopts' = [topN |-> topN, threshold |-> threshold, initialTopK |-> initialTopK]
  /\ UNCHANGED <<queryEmbedding, allEmbeddings, candidates, rerankAcc, rerankResults,
                 qoutcome, qresult, calls, pingReply, embedReply, evalLog>>
  /\ UNCHANGED inflight
  /\ UNCHANGED dbVars
  /\ UNCHANGED outsideQuery

\* const isOllamaAvailable = await this.ollamaService.ping()
QueryPing(reply) ==
  /\ qpc = "ping"
  /\ calls' = [calls EXCEPT !.ping = @ + 1]
  /\ pingReply' = reply
  /\ IF ping(reply)
     THEN qpc' = "embed" /\ UNCHANGED qoutcome
     ELSE QueryFail("ServiceUnavailableError")
  /\ UNCHANGED <<qopts, queryEmbedding, allEmbeddings, candidates, rerankAcc,
                 rerankResults, qresult, embedReply, evalLog>>
  /\ UNCHANGED inflight
  /\ UNCHANGED dbVars
  /\ UNCHANGED outsideQuery

\* const queryEmbedding = await this.ollamaService.generateEmbedding(query)
QueryEmbed(reply) ==
  /\ qpc = "embed"
  /\ calls' = [calls EXCEPT !.embed = @ + 1]
  /\ embedReply' = reply.kind
  /\ LET r == generateEmbedding(reply)
     IN  IF r.threw
         THEN QueryFail(r.error) /\ UNCHANGED queryEmbedding
         ELSE qpc' = "read" /\ queryEmbedding' = r.embedding /\ UNCHANGED qoutcome
  /\ UNCHANGED <<qopts, allEmbeddings, candidates, rerankAcc, rerankResults,
                 qresult, pingReply, evalLog>>
  /\ UNCHANGED inflight
  /\ UNCHANGED dbVars
  /\ UNCHANGED outsideQuery

\* getAllEmbeddings, the empty check, the coarse ranking, and the call of rerank
QueryRead(dbFails) ==
  /\ qpc = "read"
  /\ LET all == getAllEmbeddings(dbRows)
         cands == Candidates(Similarities(queryEmbedding, all), qopts.initialTopK)
     IN  IF dbFails
         THEN /\ QueryFail("DatabaseError")
              /\ calls' = [calls EXCEPT !.read = @ + 1]
              /\ UNCHANGED <<allEmbeddings, candidates>>
         ELSE IF IsEmptyIndex(all)
         THEN /\ QueryFail("EmptyIndexError")
              /\ calls' = [calls EXCEPT !.read = @ + 1]
              /\ allEmbeddings' = all
              /\ UNCHANGED candidates
         ELSE IF \E i \in 1..Len(all) : DimensionMismatch(queryEmbedding, all[i].embedding)
         THEN /\ QueryFail("DimensionMismatchError")
              /\ calls' = [calls EXCEPT !.read = @ + 1]
              /\ allEmbeddings' = all
              /\ UNCHANGED candidates
         ELSE /\ qpc' = "rerank"
              /\ calls' = [calls EXCEPT !.read = @ + 1, !.rerank = @ + 1]
              /\ allEmbeddings' = all
              /\ candidates' = cands
              /\ UNCHANGED qoutcome
  /\ UNCHANGED <<qopts, queryEmbedding, rerankAcc, rerankResults, qresult,
                 pingReply, embedReply, evalLog>>
  /\ UNCHANGED inflight
  /\ UNCHANGED dbVars
  /\ UNCHANGED outsideQuery

\* mutant: the loop does not wait for the call it has started
AwaitsPrevious_Never(pending) == TRUE

\* await: the loop goes on only when the call it started has settled
AwaitsPrevious(pending) == pending = {}

\* rerank: this.evaluateRelevance(query, documents[i]) is called for the next i
QueryEvaluateStart ==
  /\ qpc = "rerank"
  /\ calls.evaluate < Len(Documents(candidates))
  /\ AwaitsPrevious(inflight)
  /\ inflight' = inflight \cup {calls.evaluate}
  /\ calls' = [calls EXCEPT !.evaluate = @ + 1]
  /\ UNCHANGED <<qpc, qopts, queryEmbedding, allEmbeddings, candidates, rerankAcc,
                 rerankResults, qoutcome, qresult, pingReply, embedReply, evalLog>>
  /\ UNCHANGED dbVars
  /\ UNCHANGED outsideQuery

\* rerank: the call for document i settles; the push of the try or the catch
QueryEvaluate(reply) ==
  /\ qpc = "rerank"
  /\ inflight # {}
  /\ LET i == CHOOSE d \in inflight : \A e \in inflight : d <= e
         evaluation == evaluateRelevance(reply)
         step == RerankPush(rerankAcc, i, evaluation)
     IN  /\ evalLog' = Append(evalLog, evaluation)
         /\ inflight' = inflight \ {i}
         /\ IF step.threw
            THEN QueryFail(step.error) /\ UNCHANGED rerankAcc
            ELSE rerankAcc' = step.results /\ UNCHANGED <<qpc, qoutcome>>
  /\ UNCHANGED <<qopts, queryEmbedding, allEmbeddings, candidates,
                 rerankResults, qresult, calls, pingReply, embedReply>>
  /\ UNCHANGED dbVars
  /\ UNCHANGED outsideQuery

\* rerank returns; filter, slice, assemble and return
QueryFinish ==
  /\ qpc = "rerank"
  /\ Len(rerankAcc) = Len(Documents(candidates))
  /\ inflight = {}
  /\ LET rr == RerankSort(rerankAcc)
         results == Results(RankedCandidates(candidates, rr), qopts.threshold, qopts.topN)
     IN  /\ rerankResults' = rr
         /\ qresult' = QueryResult(allEmbeddings, candidates, results, qopts.threshold)
  /\ qpc' = "done"
  /\ qoutcome' = "ok"
  /\ UNCHANGED <<qopts, queryEmbedding, allEmbeddings, candidates, rerankAcc,
                 calls, pingReply, embedReply, evalLog>>
  /\ UNCHANGED inflight
  /\ UNCHANGED dbVars
  /\ UNCHANGED outsideQuery

(***************************************************************************)
(* SQLite statements on the shared connection (DatabaseConnection.run).    *)
(* A statement is executed whole; the environment may make it fail         *)
(* ("error"), and a failing INSERT or COMMIT may roll the transaction back *)
(* by itself ("error_rollback").  BEGIN inside a transaction and COMMIT or *)
(* ROLLBACK outside one always fail.                                       *)
(***************************************************************************)
StatementFaults == {"none", "error", "error_rollback"}

RowsWithout(rows, ids) == FilterSeq(rows, { r \in Range(rows) : r.id \notin ids })

\* db.run('BEGIN TRANSACTION') succeeds
BeginOk(fault) == fault = "none" /\ ~dbInTxn

\* db.run('COMMIT') succeeds
CommitOk(fault) == fault = "none" /\ dbInTxn

\* db.run('ROLLBACK') succeeds
RollbackOk == dbInTxn

\* the transaction is undone: by ROLLBACK, or by SQLite on a failed statement
DbUndoTransaction ==
  /\ dbRows' = RowsWithout(dbRows, dbTxnIds)
  /\ dbInTxn' = FALSE
  /\ dbTxnIds' = {}
  /\ UNCHANGED nextId

\* what a failed INSERT or COMMIT leaves behind
DbStatementFailed(fault) ==
  IF fault = "error_rollback" /\ dbInTxn
  THEN DbUndoTransaction
  ELSE UNCHANGED dbVars

(***************************************************************************)
(* EmbeddingRepository.saveEmbeddings, one call per caller at a time; a    *)
(* caller (a run of handleProcessPDFs) makes its calls one after another.  *)
(***************************************************************************)

Callers == {1, 2}

\* the file each of two concurrent ingestion runs is saving
CallerFile == [c \in Callers |-> IF c = 1 THEN "fa" ELSE "fb"]

SaveInit ==
  /\ spc = [c \in Callers |-> "idle"]
  /\ sbatch = [c \in Callers |-> <<>>]
  /\ snext = [c \in Callers |-> 1]
  /\ scalls = [c \in Callers |-> 0]
  /\ sids = [c \in Callers |-> {}]
  /\ sfailed = [c \in Callers |-> FALSE]

\* saveEmbeddings(embeddings) is entered; an empty list returns at once
SaveEnter(c, embeddings) ==
  /\ scalls' = [scalls EXCEPT ![c] = @ + 1]
  /\ sbatch' = [sbatch EXCEPT ![c] = embeddings]
  /\ snext' = [snext EXCEPT ![c] = 1]
  /\ sids' = [sids EXCEPT ![c] = {}]
  /\ sfailed' = [sfailed EXCEPT ![c] = FALSE]
  /\ spc' = [spc EXCEPT ![c] = IF Len(embeddings) = 0 THEN "returned" ELSE "begin"]

\* a caller calls saveEmbeddings(embeddings)
SaveCall(c, embeddings) ==
  /\ spc[c] \in {"idle", "returned", "threw"}
  /\ scalls[c] < MaxCalls
  /\ SaveEnter(c, embeddings)
  /\ UNCHANGED dbVars
  /\ UNCHANGED outsideSave

\* await db.run('BEGIN TRANSACTION')
SaveBegin(c, fault) ==
  /\ spc[c] = "begin"
  /\ IF BeginOk(fault)
     THEN /\ dbInTxn' = TRUE
          /\ dbTxnIds' = {}
          /\ UNCHANGED <<dbRows, nextId>>
          /\ spc' = [spc EXCEPT ![c] = "insert"]
          /\ UNCHANGED sfailed
     ELSE /\ UNCHANGED dbVars
          /\ spc' = [spc EXCEPT ![c] = "rollback"]
          /\ sfailed' = [sfailed EXCEPT ![c] = TRUE]
  /\ UNCHANGED <<sbatch, snext, scalls, sids>>
  /\ UNCHANGED outsideSave

\* await db.run('INSERT INTO pdf_embeddings ...') for the next record
SaveInsert(c, fault) ==
  /\ spc[c] = "insert"
  /\ snext[c] <= Len(sbatch[c])
  /\ IF fault = "none"
     THEN /\ dbRows' = Append(dbRows, InsertedRow(nextId, sbatch[c][snext[c]]))
          /\ nextId' = nextId + 1
          /\ dbTxnIds' = IF dbInTxn THEN dbTxnIds \cup {nextId} ELSE dbTxnIds
          /\ UNCHANGED dbInTxn
          /\ sids' = [sids EXCEPT ![c] = @ \cup {nextId}]
          /\ snext' = [snext EXCEPT ![c] = @ + 1]
          /\ spc' = [spc EXCEPT ![c] =
                       IF snext[c] = Len(sbatch[c]) THEN "commit" ELSE "insert"]
          /\ UNCHANGED sfailed
     ELSE /\ DbStatementFailed(fault)
          /\ spc' = [spc EXCEPT ![c] = "rollback"]
          /\ sfailed' = [sfailed EXCEPT ![c] = TRUE]
          /\ UNCHANGED <<sids, snext>>
  /\ UNCHANGED <<sbatch, scalls>>
  /\ UNCHANGED outsideSave

\* await db.run('COMMIT')
SaveCommit(c, fault) ==
  /\ spc[c] = "commit"
  /\ IF CommitOk(fault)
     THEN /\ dbInTxn' = FALSE
          /\ dbTxnIds' = {}
          /\ UNCHANGED <<dbRows, nextId>>
          /\ spc' = [spc EXCEPT ![c] = "returned"]
          /\ UNCHANGED sfailed
     ELSE /\ DbStatementFailed(fault)
          /\ spc' = [spc EXCEPT ![c] = "rollback"]
          /\ sfailed' = [sfailed EXCEPT ![c] = TRUE]
  /\ UNCHANGED <<sbatch, snext, scalls, sids>>
  /\ UNCHANGED outsideSave

\* catch: await db.run('ROLLBACK'), then throw; a failing ROLLBACK throws too
SaveRollback(c) ==
  /\ spc[c] = "rollback"
  /\ IF RollbackOk THEN DbUndoTransaction ELSE UNCHANGED dbVars
  /\ spc' = [spc EXCEPT ![c] = "threw"]
  /\ UNCHANGED <<sbatch, snext, scalls, sids, sfailed>>
  /\ UNCHANGED outsideSave

(***************************************************************************)
(* ChunkingService.chunkText.  A text is the sequence of pieces that       *)
(* text.split(/(?<=[.!?])\s+/) yields, each already trimmed; "" is a piece *)
(* that trims to nothing.  A chunk's text, currentChunk.join(' '), is kept *)
(* as the sequence of the sentences joined.                                *)
(***************************************************************************)
\* pieces a text is made of in SpecChunk
MaxPieces == 4

\* encode(sentence).length for the sentences of the model
EncodeLength(sentence) ==
  CASE sentence = "s1" -> 1
    [] sentence = "s2" -> 2
    [] sentence = "s4" -> 4
    [] sentence = "s6" -> 6

SentenceTexts == {"s1", "s2", "s4", "s6"}
Pieces == SentenceTexts \cup {""}
Texts == UNION { [1..n -> Pieces] : n \in 0..MaxPieces }

\* the options chunkText is called with: maxTokens well above overlap
ChunkOptionSets ==
  { [maxTokens |-> 5, overlap |-> 1],
    [maxTokens |-> 5, overlap |-> 2],
    [maxTokens |-> 5, overlap |-> 3] }

\* !text || text.trim().length === 0
IsBlank(text) == \A p \in DOMAIN text : text[p] = ""

\* .map(s => s.trim()).filter(s => s.length > 0)
splitIntoSentences(text) == FilterSeq(text, SentenceTexts)

RECURSIVE OverlapFrom(_, _, _, _, _)
\* the loop for (j = currentChunk.length - 1; j >= 0 && overlapTokens < overlap; j--),
\* j 1-based here
OverlapFrom(chunk, j, overlapSentences, overlapTokens, overlap) ==
  IF j >= 1 /\ overlapTokens < overlap
  THEN LET sent == chunk[j]
           tokens == EncodeLength(sent)
       IN  IF overlapTokens + tokens <= overlap
           THEN OverlapFrom(chunk, j - 1, <<sent>> \o overlapSentences,
                            overlapTokens + tokens, overlap)
           ELSE overlapSentences
  ELSE overlapSentences

\* the overlapSentences a new chunk starts with
OverlapSentences(chunk, overlap) == OverlapFrom(chunk, Len(chunk), <<>>, 0, overlap)

RECURSIVE SumTokens(_)
\* overlapTokens: the token counts of the sentences kept, added up
SumTokens(sents) ==
  IF sents = <<>> THEN 0 ELSE EncodeLength(Head(sents)) + SumTokens(Tail(sents))

\* chunks.push({ text: currentChunk.join(' '), token_count, chunk_index })
TextChunk(chunk, tokenCount, index) ==
  [text |-> chunk, token_count |-> tokenCount, chunk_index |-> index]

\* mutant: the sentence replaces the chunk being filled
PushSentence_Replaces(chunk, sentence) == <<sentence>>

\* currentChunk.push(sentence)
PushSentence(chunk, sentence) == Append(chunk, sentence)

ChunkInit ==
  /\ cpc = "idle"
  /\ ctext = <<>>
  /\ copts = [maxTokens |-> 512, overlap |-> 50]
  /\ sentences = <<>>
  /\ ci = 1
  /\ currentChunk = <<>>
  /\ currentTokenCount = 0
  /\ chunkIndex = 0
  /\ chunks = <<>>
  /\ copied = <<>>

\* chunkText(text, options) is called: the blank check and the sentence split
ChunkCall(text, options) ==
  /\ cpc = "idle"
  /\ ctext' = text
  /\ copts' = options
  /\ IF IsBlank(text)
     THEN cpc' = "done" /\ UNCHANGED <<sentences, copied>>
     ELSE cpc' = "loop" /\ sentences' = splitIntoSentences(text) /\ copied' = <<0>>
  /\ UNCHANGED <<ci, currentChunk, currentTokenCount, chunkIndex, chunks>>
  /\ UNCHANGED outsideChunk

\* one iteration of for (let i = 0; i < sentences.length; i++)
ChunkSentence ==
  /\ cpc = "loop"
  /\ ci <= Len(sentences)
  /\ LET sentence == sentences[ci]
         sentenceTokens == EncodeLength(sentence)
         flush == currentTokenCount + sentenceTokens > copts.maxTokens
                  /\ Len(currentChunk) > 0
         overlapSentences == OverlapSentences(currentChunk, copts.overlap)
         started == IF flush THEN overlapSentences ELSE currentChunk
         startedTokens == IF flush THEN SumTokens(overlapSentences)
                          ELSE currentTokenCount
     IN  /\ chunks' = IF flush
                      THEN Append(chunks, TextChunk(currentChunk, currentTokenCount,
                                                    chunkIndex))
                      ELSE chunks
         /\ chunkIndex' = IF flush THEN chunkIndex + 1 ELSE chunkIndex
         /\ copied' = IF flush THEN Append(copied, Len(overlapSentences)) ELSE copied
         /\ currentChunk' = PushSentence(started, sentence)
         /\ currentTokenCount' = startedTokens + sentenceTokens
  /\ ci' = ci + 1
  /\ UNCHANGED <<cpc, ctext, copts, sentences>>
  /\ UNCHANGED outsideChunk

\* after the loop: the last chunk is added and chunks returned
ChunkReturn ==
  /\ cpc = "loop"
  /\ ci > Len(sentences)
  /\ chunks' = IF Len(currentChunk) > 0
               THEN Append(chunks, TextChunk(currentChunk, currentTokenCount, chunkIndex))
               ELSE chunks
  /\ cpc' = "done"
  /\ UNCHANGED <<ctext, copts, sentences, ci, currentChunk, currentTokenCount,
                 chunkIndex, copied>>
  /\ UNCHANGED outsideChunk

(***************************************************************************)
(* An ingestion run: handleProcessPDFs (pdf.controller.ts) or processPDFs  *)
(* (pdf-mcp-server.ts).  The run is caller 1 of saveEmbeddings.  Text      *)
(* extraction and chunking of a file give the chunks of Corpus or fail;    *)
(* the embedding endpoint answers each chunk with its reply or times out.  *)
(***************************************************************************)
\* files all runs of SpecRun process together
MaxProcessed == 2

\* the file lists a run can find: distinct names
FileLists(maxLen) ==
  { seq \in UNION { [1..n -> Files] : n \in 0..maxLen } :
      \A i, j \in DOMAIN seq : i # j => seq[i] # seq[j] }

\* per chunk of file f, the embedding endpoint's reply or a timeout
ReplySeqs(f) ==
  { replies \in [1..Len(Corpus[f]) ->
                   {Timeout} \cup { ChunkReply(f, index) : index \in 1..Len(Corpus[f]) }] :
      \A index \in DOMAIN replies : replies[index] \in {Timeout, ChunkReply(f, index)} }

\* results.push of a file that was saved
StatusSuccess(filename, count) ==
  [filename |-> filename, status |-> "success", embeddings |-> count]

\* results.push of a file without chunks
StatusNoContent(filename) ==
  [filename |-> filename, status |-> "No text content found", embeddings |-> 0]

\* results.push of the per-file catch block
StatusError(filename) == [filename |-> filename, status |-> "error", embeddings |-> 0]

\* mutant: the per-file catch block rethrows
FileCatch_Rethrows(results, filename) == [aborted |-> TRUE, results |-> results]

\* catch (error) inside the file loop: log, push the error status, go on
FileCatch(results, filename) ==
  [aborted |-> FALSE, results |-> Append(results, StatusError(filename))]

RunInit ==
  /\ rpc = "idle"
  /\ rvia = "controller"
  /\ rfiles = <<>>
  /\ ri = 1
  /\ rresults = <<>>
  /\ totalEmbeddings = 0
  /\ routcome = "none"
  /\ rlog = <<>>
  /\ rgen = [called |-> FALSE]
  /\ processed = 0

\* the run after a file failed: the catch block decides whether it goes on
RunFailed(filename, event) ==
  LET caught == FileCatch(rresults, filename)
  IN  /\ rresults' = caught.results
      /\ rlog' = Append(rlog, event)
      /\ IF caught.aborted
         THEN rpc' = "done" /\ routcome' = "aborted" /\ UNCHANGED ri
         ELSE rpc' = "file" /\ ri' = ri + 1 /\ UNCHANGED routcome

\* the request arrives: the availability check and the list of files
RunStart(via, files, reply) ==
  /\ rpc \in {"idle", "done"}
  /\ spc[1] \in {"idle", "returned", "threw"}
  /\ Len(files) <= MaxProcessed - processed
  /\ rvia' = via
  /\ ri' = 1
  /\ rresults' = <<>>
  /\ rlog' = <<>>
  /\ rgen' = [called |-> FALSE]
  /\ totalEmbeddings' = 0
  /\ IF ~ping(reply)
     THEN rpc' = "done" /\ routcome' = "unavailable" /\ rfiles' = <<>>
     ELSE IF Len(files) = 0
     THEN rpc' = "done" /\ routcome' = "responded" /\ rfiles' = files
     ELSE rpc' = "file" /\ routcome' = "none" /\ rfiles' = files
  /\ UNCHANGED processed
  /\ UNCHANGED <<dbVars, saveVars>>
  /\ UNCHANGED outsideRun

\* one file of the loop, up to the call of saveEmbeddings
RunFile(extractFails, replies) ==
  /\ rpc = "file"
  /\ ri <= Len(rfiles)
  /\ replies \in ReplySeqs(rfiles[ri])
  /\ processed' = processed + 1
  /\ LET filename == rfiles[ri]
         fileChunks == Corpus[filename]
         generated == generateEmbeddings(replies)
     IN  IF extractFails
         THEN /\ RunFailed(filename, "extract_failed")
              /\ UNCHANGED <<saveVars, rgen>>
         ELSE IF Len(fileChunks) = 0
         THEN /\ rresults' = Append(rresults, StatusNoContent(filename))
              /\ rlog' = Append(rlog, "no_chunks")
              /\ ri' = ri + 1
              /\ UNCHANGED <<rpc, routcome, saveVars, rgen>>
         ELSE IF generated.threw
         THEN /\ RunFailed(filename, "embed_failed")
              /\ rgen' = [called |-> TRUE, replies |-> replies, result |-> generated]
              /\ UNCHANGED saveVars
         ELSE /\ rgen' = [called |-> TRUE, replies |-> replies, result |-> generated]
              /\ SaveEnter(1, EmbeddingsToSaveVia(rvia, filename, fileChunks,
                                                  generated.embeddings))
              /\ rpc' = "saving"
              /\ UNCHANGED <<ri, rresults, rlog, routcome>>
  /\ UNCHANGED <<rvia, rfiles, totalEmbeddings>>
  /\ UNCHANGED dbVars
  /\ UNCHANGED outsideRun

\* saveEmbeddings has returned or thrown
RunSaved ==
  /\ rpc = "saving"
  /\ spc[1] \in {"returned", "threw"}
  /\ IF spc[1] = "returned"
     THEN /\ totalEmbeddings' = totalEmbeddings + Len(sbatch[1])
          /\ rresults' = Append(rresults, StatusSuccess(rfiles[ri], Len(sbatch[1])))
          /\ rlog' = Append(rlog, "saved")
          /\ rpc' = "file"
          /\ ri' = ri + 1
          /\ UNCHANGED routcome
     ELSE /\ RunFailed(rfiles[ri], "save_failed")
          /\ UNCHANGED totalEmbeddings
  /\ UNCHANGED <<rvia, rfiles, rgen, processed>>
  /\ UNCHANGED <<dbVars, saveVars>>
  /\ UNCHANGED outsideRun

\* after the loop: the response with the results
RunRespond ==
  /\ rpc = "file"
  /\ ri > Len(rfiles)
  /\ rpc' = "done"
  /\ routcome' = "responded"
  /\ UNCHANGED <<rvia, rfiles, ri, rresults, totalEmbeddings, rlog, rgen, processed>>
  /\ UNCHANGED <<dbVars, saveVars>>
  /\ UNCHANGED outsideRun

\* clearAllEmbeddings between runs: DELETE FROM pdf_embeddings
ClearAllEmbeddings ==
  /\ rpc \in {"idle", "done"}
  /\ ~dbInTxn
  /\ dbRows # <<>>
  /\ dbRows' = <<>>
  /\ UNCHANGED <<dbInTxn, dbTxnIds, nextId>>
  /\ UNCHANGED <<saveVars, runVars>>
  /\ UNCHANGED outsideRun

(***************************************************************************)
(* Specifications.                                                         *)
(***************************************************************************)
RECURSIVE StoreAfter(_, _, _)
\* the rows after the files of seq were ingested in turn, each in one
\* committed saveEmbeddings call
StoreAfter(rows, id, seq) ==
  IF seq = <<>> THEN rows
  ELSE LET batch == EmbeddingsToSave(Head(seq))
       IN  StoreAfter(rows \o [i \in 1..Len(batch) |-> InsertedRow(id + i - 1, batch[i])],
                      id + Len(batch), Tail(seq))

\* the files the runs before the query of Spec ingested
IndexedFiles == {"fa", "fb", "fc", "fd"}

\* ingestion histories: distinct files, in any order
Ingestions ==
  { seq \in UNION { [1..n -> IndexedFiles] : n \in 0..MaxIngested } :
      \A i, j \in DOMAIN seq : i # j => seq[i] # seq[j] }

\* Spec: one query against a store filled by earlier ingestion runs
Init ==
  /\ \E seq \in Ingestions :
       /\ dbRows = StoreAfter(<<>>, 1, seq)
       /\ nextId = Len(StoreAfter(<<>>, 1, seq)) + 1
  /\ dbInTxn = FALSE
  /\ dbTxnIds = {}
  /\ QueryInit
  /\ SaveInit
  /\ ChunkInit
  /\ RunInit
  /\ ParseInit

Next ==
  \/ \E topN \in TopNs, threshold \in Thresholds, initialTopK \in InitialTopKs :
       QueryStart(topN, threshold, initialTopK)
  \/ \E reply \in PingReplies : QueryPing(reply)
  \/ \E reply \in EmbeddingReplies : QueryEmbed(reply)
  \/ \E dbFails \in BOOLEAN : QueryRead(dbFails)
  \/ QueryEvaluateStart
  \/ \E reply \in GenerateReplies : QueryEvaluate(reply)
  \/ QueryFinish

Spec == Init /\ [][Next]_vars

\* SpecSave: one caller saving batches one after another into an empty store
InitSave ==
  /\ dbRows = <<>>
  /\ nextId = 1
  /\ dbInTxn = FALSE
  /\ dbTxnIds = {}
  /\ QueryInit
  /\ SaveInit
  /\ ChunkInit
  /\ RunInit
  /\ ParseInit

NextSave ==
  \/ \E f \in Files : SaveCall(1, EmbeddingsToSave(f))
  \/ \E fault \in StatementFaults : SaveBegin(1, fault)
  \/ \E fault \in StatementFaults : SaveInsert(1, fault)
  \/ \E fault \in StatementFaults : SaveCommit(1, fault)
  \/ SaveRollback(1)

SpecSave == InitSave /\ [][NextSave]_vars

\* SpecConc: two ingestion runs, for different files, saving concurrently;
\* the storage itself never fails, so every failing statement is one SQLite
\* refuses because of the state of the connection's transaction
NextConc ==
  \E c \in Callers :
    \/ SaveCall(c, EmbeddingsToSave(CallerFile[c]))
    \/ SaveBegin(c, "none")
    \/ SaveInsert(c, "none")
    \/ SaveCommit(c, "none")
    \/ SaveRollback(c)

SpecConc == InitSave /\ [][NextConc]_vars

\* SpecChunk: one call of chunkText on any text of at most MaxPieces pieces
InitChunk ==
  /\ dbRows = <<>>
  /\ nextId = 1
  /\ dbInTxn = FALSE
  /\ dbTxnIds = {}
  /\ QueryInit
  /\ SaveInit
  /\ ChunkInit
  /\ RunInit
  /\ ParseInit

NextChunk ==
  \/ /\ cpc = "idle"
     /\ \E text \in Texts, options \in ChunkOptionSets : ChunkCall(text, options)
  \/ ChunkSentence
  \/ ChunkReturn

SpecChunk == InitChunk /\ [][NextChunk]_vars

\* SpecRun: ingestion runs one after another on either path, with failing
\* extraction, embedding and storage, and clearAllEmbeddings between runs
NextRun ==
  \/ /\ rpc \in {"idle", "done"}
     /\ \E via \in Paths, files \in FileLists(MaxProcessed - processed),
           reply \in PingReplies :
          RunStart(via, files, reply)
  \/ /\ rpc = "file" /\ ri <= Len(rfiles)
     /\ \E extractFails \in BOOLEAN, replies \in ReplySeqs(rfiles[ri]) :
          RunFile(extractFails, replies)
  \/ \E fault \in StatementFaults : SaveBegin(1, fault)
  \/ \E fault \in StatementFaults : SaveInsert(1, fault)
  \/ \E fault \in StatementFaults : SaveCommit(1, fault)
  \/ SaveRollback(1)
  \/ RunSaved
  \/ RunRespond
  \/ ClearAllEmbeddings

SpecRun == InitSave /\ [][NextRun]_vars

InitParse ==
  /\ dbRows = <<>>
  /\ nextId = 1
  /\ dbInTxn = FALSE
  /\ dbTxnIds = {}
  /\ QueryInit
  /\ SaveInit
  /\ ChunkInit
  /\ RunInit
  /\ preply \in ParseReplies
  /\ pscore = NoResult

NextParse == ParseReply

SpecParse == InitParse /\ [][NextParse]_vars

\* SpecRead: one query while one saveEmbeddings call runs on the same
\* connection
NextRead ==
  \/ /\ spc[1] = "idle"
     /\ \E f \in Files : SaveCall(1, EmbeddingsToSave(f))
  \/ \E fault \in StatementFaults : SaveBegin(1, fault)
  \/ \E fault \in StatementFaults : SaveInsert(1, fault)
  \/ \E fault \in StatementFaults : SaveCommit(1, fault)
  \/ SaveRollback(1)
  \/ /\ qpc = "idle"
     /\ \E topN \in TopNs, threshold \in Thresholds, initialTopK \in InitialTopKs :
          QueryStart(topN, threshold, initialTopK)
  \/ \E reply \in PingReplies : QueryPing(reply)
  \/ \E reply \in EmbeddingReplies : QueryEmbed(reply)
  \/ \E dbFails \in BOOLEAN : QueryRead(dbFails)
  \/ QueryEvaluateStart
  \/ \E reply \in GenerateReplies : QueryEvaluate(reply)
  \/ QueryFinish

SpecRead == InitSave /\ [][NextRead]_vars

\* SpecRunConc: ingestion runs of caller 1 while caller 2, another request,
\* saves one batch on the same connection; the storage itself never fails
NextRunConc ==
  \/ /\ rpc \in {"idle", "done"}
     /\ \E via \in Paths, files \in FileLists(MaxProcessed - processed),
           reply \in PingReplies :
          RunStart(via, files, reply)
  \/ /\ rpc = "file" /\ ri <= Len(rfiles)
     /\ \E extractFails \in BOOLEAN, replies \in ReplySeqs(rfiles[ri]) :
          RunFile(extractFails, replies)
  \/ SaveBegin(1, "none")
  \/ SaveInsert(1, "none")
  \/ SaveCommit(1, "none")
  \/ SaveRollback(1)
  \/ RunSaved
  \/ RunRespond
  \/ /\ spc[2] = "idle"
     /\ SaveCall(2, EmbeddingsToSave(CallerFile[2]))
  \/ SaveBegin(2, "none")
  \/ SaveInsert(2, "none")
  \/ SaveCommit(2, "none")
  \/ SaveRollback(2)

SpecRunConc == InitSave /\ [][NextRunConc]_vars

(***************************************************************************)
(* Properties of RagService.query and OllamaService.rerank, under Spec.    *)
(***************************************************************************)
Returned == qpc = "done" /\ qoutcome = "ok"

\* rerank was called and has returned
Reranked == qpc = "done" /\ calls.rerank = 1

\* the score rerank owes document i (1-based) after its own evaluation
OwnScore(i) == IF evalLog[i].threw THEN 0 ELSE evalLog[i].score

\* result item and candidate are the same stored record
SameRecord(item, cand) ==
  item.filename = cand.filename /\ item.chunkIndex = cand.chunk_index

\* C1: every item of a returned result has relevanceScore >= the threshold of
\* the call, and no candidate that rerank scored below the threshold is among
\* the results.
C1_ThresholdFilter ==
  Returned =>
    /\ \A k \in DOMAIN qresult.results :
         qresult.results[k].relevanceScore >= qopts.threshold
    /\ \A e \in Range(rerankResults) :
         e.relevanceScore < qopts.threshold =>
           \A k \in DOMAIN qresult.results :
             ~SameRecord(qresult.results[k], candidates[e.index + 1])

C1_Witness ==
  /\ Returned
  /\ qresult.results # <<>>
  /\ \E e \in Range(rerankResults) : e.relevanceScore < qopts.threshold

\* C2: the results are in descending relevanceScore order and the first one is
\* a candidate whose own evaluation is the highest among those reaching the
\* threshold; with initialTopK covering the store, topN = 1 and threshold 0 the
\* single result is the record with the highest rerank score.
C2_RerankDecidesOrder ==
  Returned =>
    LET res == qresult.results
    IN  /\ \A i, j \in DOMAIN res : i < j => res[i].relevanceScore >= res[j].relevanceScore
        /\ res # <<>> =>
             \E i \in DOMAIN candidates :
               /\ SameRecord(res[1], candidates[i])
               /\ res[1].relevanceScore = OwnScore(i)
               /\ \A j \in DOMAIN candidates :
                    OwnScore(j) >= qopts.threshold => OwnScore(j) <= OwnScore(i)
        /\ (qopts.topN = 1 /\ qopts.threshold = 0 /\ qopts.initialTopK >= Len(dbRows)) =>
             /\ Len(res) = 1
             /\ Len(candidates) = Len(dbRows)
             /\ \A j \in DOMAIN candidates : OwnScore(j) <= res[1].relevanceScore

\* the single result is not the most cosine-similar record
C2_Witness ==
  /\ Returned
  /\ qopts.topN = 1 /\ qopts.threshold = 0 /\ qopts.initialTopK >= Len(dbRows)
  /\ Len(qresult.results) = 1
  /\ SimLess(qresult.results[1].similarity, candidates[1].similarity)

\* C3: a returned result never holds more than topN items, whatever topN is.
C3_TopNBound ==
  Returned => Len(qresult.results) <= qopts.topN

\* C4: against an empty store the call never returns a result; once the
\* service answered and the store was read it fails with EmptyIndexError;
\* no returned result has metadata.totalChunks = 0.
C4_EmptyIndex ==
  /\ (Len(dbRows) = 0 /\ qpc = "done") =>
       /\ qoutcome # "ok"
       /\ qresult = NoResult
       /\ (calls.read = 1 /\ qoutcome # "DatabaseError") => qoutcome = "EmptyIndexError"
  /\ qresult # NoResult => qresult.metadata.totalChunks > 0

C4_Witness ==
  /\ Len(dbRows) = 0
  /\ qpc = "done"
  /\ calls.read = 1
  /\ qoutcome = "EmptyIndexError"

\* C5: a failing relevance evaluation never makes rerank throw: rerank returns
\* one entry per document, 0 for a document whose evaluation failed and, for
\* every other document, the score of its own evaluation.
C5_RerankDegrades ==
  /\ calls.evaluate > 0 => qoutcome \in {"none", "ok"}
  /\ Reranked =>
       /\ qoutcome = "ok"
       /\ Len(rerankResults) = Len(candidates)
       /\ \A i \in DOMAIN candidates :
            \E k \in DOMAIN rerankResults :
              /\ rerankResults[k].index = i - 1
              /\ rerankResults[k].relevanceScore = OwnScore(i)
              /\ evalLog[i].threw => rerankResults[k].relevanceScore = 0

\* a failure in the middle of a batch, the others scored
C5_Witness ==
  /\ Reranked
  /\ Len(evalLog) = 3
  /\ ~evalLog[1].threw /\ evalLog[2].threw /\ ~evalLog[3].threw
  /\ evalLog[3].score > 0

\* C6: when ping reports the backend unreachable the call fails with
\* ServiceUnavailableError, no embedding call, store read or rerank call is
\* made, and nothing is returned.
C6_PingFailsFast ==
  pingReply \notin {"none", "ok"} =>
    /\ qpc = "done"
    /\ qoutcome = "ServiceUnavailableError"
    /\ qresult = NoResult
    /\ calls.embed = 0 /\ calls.read = 0 /\ calls.rerank = 0 /\ calls.evaluate = 0

C6_Witness ==
  /\ pingReply = "network_failure"
  /\ qoutcome = "ServiceUnavailableError"

\* C7: a failed query embedding fails the whole call, with no result and no
\* rerank call; a failed rerank candidate leaves the call successful with that
\* candidate scored 0.
C7_AllOrNothingButRerank ==
  /\ embedReply \notin {"none", "ok"} =>
       /\ qpc = "done"
       /\ qoutcome \in {"TimeoutError", "ServiceError"}
       /\ embedReply = "timeout" <=> qoutcome = "TimeoutError"
       /\ qresult = NoResult
       /\ calls.rerank = 0 /\ calls.evaluate = 0
  /\ (Reranked /\ \E i \in DOMAIN evalLog : evalLog[i].threw) =>
       /\ qoutcome = "ok"
       /\ qresult # NoResult
       /\ \A i \in DOMAIN evalLog :
            evalLog[i].threw =>
              /\ [index |-> i - 1, relevanceScore |-> 0] \in Range(rerankResults)
              /\ \A k \in DOMAIN qresult.results :
                   SameRecord(qresult.results[k], candidates[i]) =>
                     qresult.results[k].relevanceScore = 0

\* a timed-out candidate is in the results of a successful call, scored 0
C7_Witness ==
  /\ Reranked
  /\ \E i \in DOMAIN evalLog :
       /\ evalLog[i] = [threw |-> TRUE, error |-> "TimeoutError"]
       /\ \E k \in DOMAIN qresult.results :
            SameRecord(qresult.results[k], candidates[i])

\* C8: with a non-empty store and no reranked candidate reaching the threshold
\* the call succeeds with no results and the metadata intact.
C8_NoMatchIsSuccess ==
  (Reranked /\ \A e \in Range(rerankResults) : e.relevanceScore < qopts.threshold) =>
    /\ qoutcome = "ok"
    /\ qresult.results = <<>>
    /\ qresult.metadata.totalChunks = Len(dbRows)
    /\ qresult.metadata.totalChunks > 0
    /\ qresult.metadata.threshold = qopts.threshold
    /\ qresult.metadata.resultsReturned = 0

C8_Witness ==
  /\ Reranked
  /\ Len(rerankResults) >= 2
  /\ Len(rerankResults) < Len(dbRows)
  /\ \A e \in Range(rerankResults) : e.relevanceScore < qopts.threshold
  /\ qresult.results = <<>>

\* the stored vectors as a read returns them
StoredVectors ==
  LET all == getAllEmbeddings(dbRows) IN [i \in DOMAIN all |-> all[i].embedding]

\* C14: cosineSimilarity refuses two vectors of different lengths, and a
\* query whose embedding differs in length from any stored record's embedding
\* fails with DimensionMismatchError: no rerank call is made and no result is
\* returned.
C14_DimensionMismatch ==
  (calls.read = 1 /\ qoutcome # "DatabaseError") =>
    /\ \A i \in DOMAIN StoredVectors :
         DimensionMismatch(queryEmbedding, StoredVectors[i])
           <=> Len(queryEmbedding) # Len(StoredVectors[i])
    /\ (\E i \in DOMAIN StoredVectors : Len(StoredVectors[i]) # Len(queryEmbedding)) =>
         /\ qpc = "done"
         /\ qoutcome = "DimensionMismatchError"
         /\ qresult = NoResult
         /\ calls.rerank = 0 /\ calls.evaluate = 0

\* one stored record matches the query embedding's length and a longer one
\* does not
C14_Witness ==
  /\ qoutcome = "DimensionMismatchError"
  /\ \E i, j \in DOMAIN StoredVectors :
       /\ Len(StoredVectors[i]) = Len(queryEmbedding)
       /\ Len(StoredVectors[j]) > Len(queryEmbedding)


\* C17: rerank returns one entry per document, the index values being each
\* original position 0..n-1 exactly once, in an order in which relevanceScore
\* never increases.
C17_RerankPermutation ==
  Reranked =>
    LET n == Len(Documents(candidates))
    IN  /\ Len(rerankResults) = n
        /\ { rerankResults[k].index : k \in DOMAIN rerankResults } = 0..(n - 1)
        /\ \A k \in 1..(n - 1) :
             rerankResults[k].relevanceScore >= rerankResults[k + 1].relevanceScore

\* three documents, returned in another order than they were passed
C17_Witness ==
  /\ Reranked
  /\ Len(rerankResults) = 3
  /\ rerankResults[1].index = 2
  /\ rerankResults[1].relevanceScore > rerankResults[3].relevanceScore

\* C18: a document passed to rerank as an empty string is scored 0 whatever
\* the generation service replies, and rerank still returns.
C18_EmptyDocumentScoredZero ==
  (qpc = "done" /\ calls.rerank = 1) =>
    /\ qoutcome = "ok"
    /\ \A i \in DOMAIN candidates :
         Documents(candidates)[i] = "" =>
           \A k \in DOMAIN rerankResults :
             rerankResults[k].index = i - 1 => rerankResults[k].relevanceScore = 0


\* C21: the candidates handed to rerank are the first min(initialTopK, total)
\* records of the descending cosine ordering: there are that many of them,
\* each one's similarity is at least that of every record left out, and a
\* returned result reports candidatesEvaluated = min(initialTopK, totalChunks).
C21_CoarseCandidates ==
  calls.rerank = 1 =>
    /\ Len(candidates) = Min(qopts.initialTopK, Len(allEmbeddings))
    /\ \A i \in DOMAIN candidates :
         \A r \in Range(allEmbeddings) :
           (\A j \in DOMAIN candidates :
              ~(candidates[j].filename = r.filename /\ candidates[j].chunk_index = r.chunk_index))
           => ~SimLess(candidates[i].similarity, cosineSimilarity(queryEmbedding, r.embedding))
    /\ Returned =>
         qresult.metadata.candidatesEvaluated =
           Min(qopts.initialTopK, qresult.metadata.totalChunks)

\* result item x is stored before result item y: filename, then chunk index
StoredBefore(x, y) ==
  RowBefore([filename |-> x.filename, chunk_index |-> x.chunkIndex],
            [filename |-> y.filename, chunk_index |-> y.chunkIndex])

\* C22: the order of a returned result is fully determined: descending
\* relevanceScore; among equal relevance scores the higher similarity (the
\* better coarse rank) first; among equal similarities the record stored
\* earlier (filename, then chunk index) first.  The order is strict, so the
\* same store, query embedding and scores always give the same list.
C22_StableTieBreak ==
  Returned =>
    LET res == qresult.results
    IN  \A i, j \in DOMAIN res : i < j =>
          \/ res[i].relevanceScore > res[j].relevanceScore
          \/ /\ res[i].relevanceScore = res[j].relevanceScore
             /\ SimLess(res[j].similarity, res[i].similarity)
          \/ /\ res[i].relevanceScore = res[j].relevanceScore
             /\ ~SimLess(res[i].similarity, res[j].similarity)
             /\ ~SimLess(res[j].similarity, res[i].similarity)
             /\ StoredBefore(res[i], res[j])

\* two results tie on relevance and on similarity, in a store whose rows were
\* inserted against the storage order
C22_Witness ==
  /\ Returned
  /\ Len(dbRows) = 3 /\ dbRows[1].filename = "fb"
  /\ \E i, j \in DOMAIN qresult.results :
       /\ i < j
       /\ qresult.results[i].relevanceScore = qresult.results[j].relevanceScore
       /\ ~SimLess(qresult.results[i].similarity, qresult.results[j].similarity)
       /\ ~SimLess(qresult.results[j].similarity, qresult.results[i].similarity)
       /\ qresult.results[i].filename # qresult.results[j].filename

\* C23: every item of a returned result is assembled from one stored record:
\* its text, filename, chunkIndex and tokenCount are that record's, its
\* similarity is the cosine similarity of the query embedding with that
\* record's vector, and its relevanceScore is what the evaluation of that
\* record's own document produced.
C23_OneRecordPerItem ==
  Returned =>
    \A k \in DOMAIN qresult.results :
      LET item == qresult.results[k]
      IN  \E i \in DOMAIN candidates :
            \E r \in Range(allEmbeddings) :
              /\ candidates[i].id = r.id
              /\ item.filename = r.filename
              /\ item.chunkIndex = r.chunk_index
              /\ item.text = OrEmpty(r.chunk_text)
              /\ item.tokenCount = OrZero(r.token_count)
              /\ item.similarity = cosineSimilarity(queryEmbedding, r.embedding)
              /\ item.relevanceScore = OwnScore(i)

\* rerank moved a candidate with another score and another text to the front
C23_Witness ==
  /\ Returned
  /\ Len(qresult.results) >= 2
  /\ rerankResults[1].index # 0
  /\ qresult.results[1].relevanceScore # qresult.results[2].relevanceScore
  /\ qresult.results[1].text # qresult.results[2].text

\* C30: no stored record appears twice in a returned result, and the metadata
\* counts are consistent: resultsReturned is the length of the result list
\* and resultsReturned <= candidatesEvaluated <= totalChunks.
C30_NoDuplicatesConsistentCounts ==
  Returned =>
    LET res == qresult.results
        md == qresult.metadata
    IN  /\ \A i, j \in DOMAIN res :
             (res[i].filename = res[j].filename /\ res[i].chunkIndex = res[j].chunkIndex)
             => i = j
        /\ md.resultsReturned = Len(res)
        /\ md.resultsReturned <= md.candidatesEvaluated
        /\ md.candidatesEvaluated <= md.totalChunks
        /\ md.candidatesEvaluated = Len(candidates)
        /\ md.totalChunks = Len(dbRows)

\* three results out of three candidates, two of them from the same file
C30_Witness ==
  /\ Returned
  /\ Len(qresult.results) = 3
  /\ qresult.metadata.candidatesEvaluated = 3
  /\ \E i, j \in DOMAIN qresult.results :
       i # j /\ qresult.results[i].filename = qresult.results[j].filename

\* C26: rerank evaluates the documents one at a time in index order: at most
\* one evaluation is in flight, it is the one for the document after those
\* already pushed, and when rerank has returned exactly one evaluation was
\* made per document.
C26_SequentialRerank ==
  /\ Cardinality(inflight) <= 1
  /\ inflight \subseteq {calls.evaluate - 1}
  /\ qpc = "rerank" => Len(rerankAcc) = calls.evaluate - Cardinality(inflight)
  /\ \A k \in DOMAIN rerankAcc : rerankAcc[k].index = k - 1
  /\ Reranked =>
       /\ calls.evaluate = Len(Documents(candidates))
       /\ Len(evalLog) = Len(Documents(candidates))

\* the second of three evaluations is in flight after the first one failed
C26_Witness ==
  /\ qpc = "rerank"
  /\ Len(candidates) = 3
  /\ inflight = {1}
  /\ Len(evalLog) = 1 /\ evalLog[1].threw


(***************************************************************************)
(* Properties of EmbeddingRepository.saveEmbeddings, under SpecConc.       *)
(***************************************************************************)
\* the call of caller c is over
Finished(c) == spc[c] \in {"returned", "threw"}

\* the rows in the store that the current call of caller c wrote
StoredOf(c) == FilterSeq(dbRows, { r \in Range(dbRows) : r.id \in sids[c] })

\* every record of the call's batch is persisted, in order
AllPersisted(c) ==
  /\ Len(StoredOf(c)) = Len(sbatch[c])
  /\ \A i \in DOMAIN sbatch[c] :
       StoredOf(c)[i] = InsertedRow(StoredOf(c)[i].id, sbatch[c][i])
  /\ sids[c] \cap dbTxnIds = {}

\* C9: if a BEGIN, INSERT or COMMIT of a call fails the call raises an error
\* and none of its records is in the store afterwards; if the call returns
\* normally all of them are.
C9_SaveAtomic ==
  \A c \in Callers :
    Finished(c) =>
      /\ sfailed[c] => (spc[c] = "threw" /\ StoredOf(c) = <<>>)
      /\ spc[c] = "returned" => (~sfailed[c] /\ AllPersisted(c))

\* C10: after two concurrent calls for different files have both finished,
\* the store holds every record or no record of each batch, and a call that
\* returned normally has all its records persisted.
C10_ConcurrentAllOrNothing ==
  (\A c \in Callers : Finished(c)) =>
    \A c \in Callers :
      /\ StoredOf(c) = <<>> \/ AllPersisted(c)
      /\ spc[c] = "returned" => AllPersisted(c)

(***************************************************************************)
(* Properties of ChunkingService.chunkText, under SpecChunk.               *)
(***************************************************************************)
\* the chunk holds a sentence that alone exceeds maxTokens
ForcedOversized(chunk) ==
  \E p \in DOMAIN chunk.text : EncodeLength(chunk.text[p]) > copts.maxTokens

\* C11: every emitted chunk has token_count <= maxTokens unless it holds a
\* sentence whose own token count exceeds maxTokens.
C11_TokenBound ==
  \A k \in DOMAIN chunks :
    chunks[k].token_count <= copts.maxTokens \/ ForcedOversized(chunks[k])

RECURSIVE NewSentences(_, _)
\* the sentences of the chunks in order, each without its leading overlap
NewSentences(chs, cop) ==
  IF chs = <<>> THEN <<>>
  ELSE SubSeq(Head(chs).text, Head(cop) + 1, Len(Head(chs).text))
         \o NewSentences(Tail(chs), Tail(cop))

\* C12: for a non-empty text the chunks, each stripped of the overlap
\* sentences it copied from the tail of the previous chunk, give back exactly
\* the sentence sequence of the text.
C12_Coverage ==
  (cpc = "done" /\ ~IsBlank(ctext)) =>
    /\ Len(copied) = Len(chunks)
    /\ copied[1] = 0
    /\ \A k \in 2..Len(chunks) :
         /\ copied[k] <= Len(chunks[k].text)
         /\ copied[k] <= Len(chunks[k - 1].text)
         /\ SubSeq(chunks[k].text, 1, copied[k])
              = SubSeq(chunks[k - 1].text,
                       Len(chunks[k - 1].text) - copied[k] + 1, Len(chunks[k - 1].text))
    /\ NewSentences(chunks, copied) = splitIntoSentences(ctext)

\* several chunks, one of them starting with copied sentences, and a sentence
\* longer than maxTokens among them
C12_Witness ==
  /\ cpc = "done"
  /\ Len(chunks) >= 3
  /\ \E k \in DOMAIN copied : copied[k] >= 1
  /\ \E k \in DOMAIN chunks : ForcedOversized(chunks[k])
  /\ Len(sentences) < Len(ctext)

\* C13: when more than one chunk is emitted, every chunk after the first
\* begins with a non-empty suffix of the previous chunk's sentences whose
\* token counts add up to at most overlap.
C13_Overlap ==
  \A k \in 2..Len(chunks) :
    \E n \in 1..Min(Len(chunks[k].text), Len(chunks[k - 1].text)) :
      /\ SubSeq(chunks[k].text, 1, n)
           = SubSeq(chunks[k - 1].text,
                    Len(chunks[k - 1].text) - n + 1, Len(chunks[k - 1].text))
      /\ SumTokens(SubSeq(chunks[k].text, 1, n)) <= copts.overlap

\* the records of the current call of caller c as a read returns them
ReadBack(c, read) == FilterSeq(read, { r \in Range(read) : r.id \in sids[c] })

\* the read gives back every vector of the call's batch, element by element
SameVectors(c, read) ==
  /\ Len(ReadBack(c, read)) = Len(sbatch[c])
  /\ \A i \in DOMAIN sbatch[c] :
       /\ Len(ReadBack(c, read)[i].embedding) = Len(sbatch[c][i].embedding)
       /\ \A p \in DOMAIN sbatch[c][i].embedding :
            ReadBack(c, read)[i].embedding[p] = sbatch[c][i].embedding[p]

\* C15: every vector of a batch saveEmbeddings has saved is read back by
\* getAllEmbeddings and by getEmbeddingsByFilename with the same length and
\* the same element at every position.
C15_RoundTrip ==
  \A c \in Callers :
    (spc[c] = "returned" /\ sbatch[c] # <<>>) =>
      /\ SameVectors(c, getAllEmbeddings(dbRows))
      /\ SameVectors(c, getEmbeddingsByFilename(dbRows, sbatch[c][1].filename))

(***************************************************************************)
(* Properties of the ingestion runs, under SpecRun.                        *)
(***************************************************************************)
\* the status entry owed to a file after what happened to it
StatusFor(filename, event) ==
  CASE event = "saved" -> StatusSuccess(filename, Len(Corpus[filename]))
    [] event = "no_chunks" -> StatusNoContent(filename)
    [] OTHER -> StatusError(filename)

\* C16: a failure while extracting, chunking, embedding or storing one file
\* never aborts the run: every file of the batch is processed, and the
\* response holds one status entry per file, in processing order, saying
\* what happened to that file.
C16_BatchContinues ==
  /\ routcome # "aborted"
  /\ rpc \in {"file", "saving"} => (Len(rresults) = ri - 1 /\ Len(rlog) = ri - 1)
  /\ routcome = "responded" =>
       /\ Len(rlog) = Len(rfiles)
       /\ Len(rresults) = Len(rfiles)
       /\ \A i \in DOMAIN rfiles : rresults[i] = StatusFor(rfiles[i], rlog[i])

\* the first file fails, the second is saved
C16_Witness ==
  /\ routcome = "responded"
  /\ Len(rfiles) = 2
  /\ rlog[1] \in {"extract_failed", "embed_failed", "save_failed"}
  /\ rlog[2] = "saved"
  /\ \E i \in DOMAIN dbRows : dbRows[i].filename = rfiles[2]

\* no run or save is under way: what the store holds is committed
StoreAtRest == rpc \in {"idle", "done"} /\ ~dbInTxn

\* C19: after any sequence of ingestion runs and clearAllEmbeddings calls no
\* two stored records share the same (filename, chunk_index) pair.
C19_UniqueChunkIndex ==
  StoreAtRest =>
    \A i, j \in DOMAIN dbRows :
      (dbRows[i].filename = dbRows[j].filename
         /\ dbRows[i].chunk_index = dbRows[j].chunk_index) => i = j

\* C20: every stored record has dimension equal to the length of its stored
\* embedding vector, whichever path ingested it.
C20_DimensionIsLength ==
  \A i \in DOMAIN dbRows :
    dbRows[i].dimension = Len(parseEmbedding(dbRows[i].embedding))

\* records of both paths and of two dimensions are stored, one of them with
\* a component that is not a finite number
C20_Witness ==
  /\ StoreAtRest
  /\ \E i, j \in DOMAIN dbRows :
       /\ dbRows[i].chunk_text = NULL /\ dbRows[j].chunk_text # NULL
       /\ dbRows[i].dimension # dbRows[j].dimension
       /\ JsonNull \in Range(parseEmbedding(dbRows[j].embedding))

\* the run has just saved a file: its last status entry is a success, the
\* next file has not been started and the run has not responded
JustSaved == rpc = "file" /\ rlog # <<>> /\ rlog[Len(rlog)] = "saved"

\* the records the last saveEmbeddings call of the run wrote
WrittenRows == FilterSeq(dbRows, { r \in Range(dbRows) : r.id \in sids[1] })

\* C29: for a file ingested successfully on either path, the records written
\* for it are one per chunk, and the record with chunk_index i carries the
\* text, the token count and the embedding of the i-th chunk.
C29_RecordPerChunk ==
  JustSaved =>
    LET fileChunks == Corpus[rfiles[Len(rlog)]]
        embeddings == generateEmbeddings(rgen.replies).embeddings
    IN  /\ Len(WrittenRows) = Len(fileChunks)
        /\ \A i \in DOMAIN fileChunks :
             \E k \in DOMAIN WrittenRows :
               /\ WrittenRows[k].chunk_index = i - 1
               /\ WrittenRows[k].chunk_text = <<fileChunks[i].text>>
               /\ WrittenRows[k].token_count = <<fileChunks[i].token_count>>
               /\ parseEmbedding(WrittenRows[k].embedding) = embeddings[i]

\* C24: generateEmbeddings has no partial success.  The texts are requested
\* one by one in order; when a request fails the call throws, returns no
\* list and requests no later text; when all succeed the result has one
\* vector per text and the i-th vector is the one made for the i-th text.
C24_NoPartialSuccess ==
  rgen.called =>
    LET replies == rgen.replies
        result == rgen.result
        failing == { i \in DOMAIN replies : generateEmbedding(replies[i]).threw }
    IN  IF failing = {}
        THEN /\ ~result.threw
             /\ result.requested = Len(replies)
             /\ Len(result.embeddings) = Len(replies)
             /\ \A i \in DOMAIN replies :
                  result.embeddings[i] = generateEmbedding(replies[i]).embedding
        ELSE /\ result.threw
             /\ "embeddings" \notin DOMAIN result
             /\ \A i \in failing : result.requested <= i
             /\ result.requested \in failing

\* the first of two texts failed and the second was not requested
C24_Witness ==
  /\ rgen.called
  /\ Len(rgen.replies) = 2
  /\ rgen.result.threw
  /\ rgen.result.requested = 1
  /\ rgen.replies[2] # Timeout

\* both texts succeeded: two different vectors in the order of the texts
C24_WitnessSuccess ==
  /\ rgen.called
  /\ Len(rgen.replies) = 2
  /\ ~rgen.result.threw
  /\ rgen.result.embeddings[1] # rgen.result.embeddings[2]

(***************************************************************************)
(* Properties of OllamaService.evaluateRelevance, under SpecParse.         *)
(***************************************************************************)
\* m is a decimal or integer number: digits, optionally a point among or in
\* front of them, a digit last
IsNumber(m) ==
  /\ m # <<>>
  /\ \A k \in DOMAIN m : m[k] \in Digits \cup {"."}
  /\ Cardinality({ k \in DOMAIN m : m[k] = "." }) <= 1
  /\ m[Len(m)] \in Digits

\* where the numbers of text t are
NumberSpans(t) ==
  { span \in (1..Len(t)) \X (1..Len(t)) :
      span[1] <= span[2] /\ IsNumber(SubSeq(t, span[1], span[2])) }

\* the first number of t: the leftmost start, as long as it gets
FirstNumber(t) ==
  LET first == CHOOSE span \in NumberSpans(t) :
                 \A other \in NumberSpans(t) :
                   \/ span[1] < other[1]
                   \/ (span[1] = other[1] /\ span[2] >= other[2])
  IN  SubSeq(t, first[1], first[2])

RECURSIVE WholeValue(_)
\* the value of a run of digits, leading digit first
WholeValue(ds) ==
  IF ds = <<>> THEN 0
  ELSE DigitVal(Head(ds)) * (10 ^ (Len(ds) - 1)) + WholeValue(Tail(ds))

\* the value of number m in hundredths, further decimals dropped
Hundredths(m) ==
  LET point == IF \E k \in DOMAIN m : m[k] = "."
               THEN CHOOSE k \in DOMAIN m : m[k] = "." ELSE Len(m) + 1
      tenths == IF point + 1 <= Len(m) THEN DigitVal(m[point + 1]) ELSE 0
      hundredths == IF point + 2 <= Len(m) THEN DigitVal(m[point + 2]) ELSE 0
  IN  WholeValue(SubSeq(m, 1, point - 1)) * 100 + tenths * 10 + hundredths

\* C25: for a well-formed reply evaluateRelevance returns a score in [0, 1]
\* and never throws: 0.5 when the reply holds no number, otherwise the first
\* number of the reply, 1 when that number is above 1.
C25_ParsedScore ==
  (pscore # NoResult /\ preply.kind = "ok") =>
    /\ ~pscore.threw
    /\ pscore.score \in 0..100
    /\ IF NumberSpans(preply.response) = {}
       THEN pscore.score = 50
       ELSE LET v == Hundredths(FirstNumber(preply.response))
            IN  pscore.score = IF v > 100 THEN 100 ELSE v

\* a reply whose first number follows other text and is above 1, and is not
\* its only number
C25_Witness ==
  /\ pscore # NoResult
  /\ preply = [kind |-> "ok", response |-> <<"x", "5", " ", "0">>]
  /\ pscore.score = 100

\* a reply without a number
C25_WitnessDefault ==
  /\ pscore # NoResult
  /\ preply = [kind |-> "ok", response |-> <<"x", ".", "-">>]
  /\ pscore.score = 50

(***************************************************************************)
(* Properties of a read next to a save, under SpecRead.                    *)
(***************************************************************************)
\* the saveEmbeddings call has started and has neither returned nor thrown
SaveInFlight == spc[1] \in {"begin", "insert", "commit", "rollback"}

\* the records of the batch in flight that the read returned
SeenOfBatch == { r.id : r \in Range(allEmbeddings) } \cap sids[1]

\* C27: a getAllEmbeddings read made while a saveEmbeddings call is in
\* flight returns either every record of that call's batch or none of them.
C27_ReadSeesWholeBatchOrNone ==
  (calls.read = 1 /\ SaveInFlight) =>
    \/ SeenOfBatch = {}
    \/ Cardinality(SeenOfBatch) = Len(sbatch[1])

(***************************************************************************)
(* Properties of ingestion runs next to another save, under SpecRunConc.   *)
(***************************************************************************)
\* C28: when a file of a run gets an error status entry, no record written
\* for it by this run is in the store: a failed extraction or embedding made
\* no save call and wrote nothing, and of a failed save no record is left.
C28_ErrorLeavesNoRecord ==
  [][ (Len(rlog') = Len(rlog) + 1 /\ rresults'[Len(rresults')].status = "error") =>
        IF rlog'[Len(rlog')] = "save_failed"
        THEN \A r \in Range(dbRows') : r.id \notin sids[1]
        ELSE dbRows' = dbRows /\ nextId' = nextId /\ scalls' = scalls ]_vars

====
